---------------------------- MODULE Spec2Model ----------------------------
(***************************************************************************)
(* Browser History Manager backend (src/server-node.js).                   *)
(*                                                                         *)
(* One Node.js process holds the history in the module-level object        *)
(* browserHistory = {pages, currentIndex} and mirrors it to history.json.  *)
(* Every request handler runs synchronously up to its first await (the     *)
(* fs.writeFile inside saveHistory) and resumes when that write settles,   *)
(* so a handler is two steps of the event loop: the request step and the   *)
(* step that settles its write and sends the response.                     *)
(*                                                                         *)
(* JavaScript strings are modelled as sequences of one-character strings,  *)
(* so that startsWith, trim, split and the URL parser are computed.        *)
(***************************************************************************)
EXTENDS Integers, Sequences, FiniteSets, TLC

(***************************************************************************)
(* Bounds of the model.                                                    *)
(***************************************************************************)
\* visit is not offered once the history would grow beyond this length
MaxPages == 3
\* number of writes of history.json (handlers suspended in saveHistory)
\* that may be pending at once
MaxInFlight == 2

(***************************************************************************)
(* Strings.                                                                *)
(***************************************************************************)
Letters == {"a", "b", "c", "h", "i", "n", "p", "s", "t", "x", "B"}
Digits  == {"0", "1", "8"}

HTTP      == <<"h", "t", "t", "p">>
HTTP_SL   == <<"h", "t", "t", "p", ":", "/", "/">>
HTTPS_SL  == <<"h", "t", "t", "p", "s", ":", "/", "/">>

\* String.prototype.startsWith
StartsWith(s, p) == Len(s) >= Len(p) /\ SubSeq(s, 1, Len(p)) = p

\* String.prototype.toLowerCase on the alphabet above
Lower(ch) == IF ch = "B" THEN "b" ELSE ch
LowerStr(s) == [i \in 1..Len(s) |-> Lower(s[i])]

\* String.prototype.trim: drops the leading and the trailing white space
Trim(s) ==
    LET solid == {i \in 1..Len(s) : s[i] # " "}
    IN  IF solid = {} THEN <<>>
        ELSE LET lo == CHOOSE i \in solid : \A j \in solid : i <= j
                 hi == CHOOSE i \in solid : \A j \in solid : i >= j
             IN  SubSeq(s, lo, hi)

\* index of the first character of s that lies in set, Len(s) + 1 if none
FirstIn(s, set) ==
    LET hits == {i \in 1..Len(s) : s[i] \in set}
    IN  IF hits = {} THEN Len(s) + 1
        ELSE CHOOSE i \in hits : \A j \in hits : i <= j

\* s without its leading characters that lie in set
DropLeading(s, set) ==
    LET keep == {i \in 1..Len(s) : s[i] \notin set}
    IN  IF keep = {} THEN <<>>
        ELSE SubSeq(s, CHOOSE i \in keep : \A j \in keep : i <= j, Len(s))

(***************************************************************************)
(* new URL(input), with no base: the WHATWG URL parser on the alphabet     *)
(* above (no credentials, no IPv4/IPv6 literal, no percent escape).        *)
(* The result is [ok |-> FALSE] when the constructor throws TypeError and  *)
(* [ok |-> TRUE, hostname |-> ...] otherwise.                              *)
(***************************************************************************)
SpecialSchemes == {<<"h", "t", "t", "p">>, <<"h", "t", "t", "p", "s">>}
SchemeChars == Letters \cup Digits \cup {"+", "-", "."}
\* forbidden host code points that occur in the alphabet
ForbiddenHost == {" ", ":", "/", "?", "#"}

\* position of the ":" that ends the scheme, 0 when the input has no scheme
SchemeEnd(s) ==
    LET i == FirstIn(s, {":"})
    IN  IF /\ i <= Len(s)
           /\ i > 1
           /\ s[1] \in Letters
           /\ \A j \in 2..(i - 1) : s[j] \in SchemeChars
        THEN i ELSE 0

\* the host and port of an authority "host[:port]"
ParseAuthority(auth, special) ==
    LET c    == FirstIn(auth, {":"})
        host == SubSeq(auth, 1, c - 1)
        port == SubSeq(auth, c + 1, Len(auth))
    IN  IF \/ (special /\ host = <<>>)
           \/ \E i \in 1..Len(host) : host[i] \in ForbiddenHost
           \/ \E i \in 1..Len(port) : port[i] \notin Digits
        THEN [ok |-> FALSE, hostname |-> <<>>]
        ELSE [ok |-> TRUE,
              hostname |-> IF special THEN LowerStr(host) ELSE host]

ParseUrl(input) ==
    LET s == Trim(input)
        e == SchemeEnd(s)
    IN  IF e = 0 THEN [ok |-> FALSE, hostname |-> <<>>]
        ELSE
          LET scheme == LowerStr(SubSeq(s, 1, e - 1))
              rest   == SubSeq(s, e + 1, Len(s))
          IN  IF scheme \in SpecialSchemes
              THEN \* special authority (ignore) slashes state
                   LET r == DropLeading(rest, {"/", "\\"})
                   IN  ParseAuthority(
                           SubSeq(r, 1, FirstIn(r, {"/", "?", "#"}) - 1), TRUE)
              ELSE IF StartsWith(rest, <<"/", "/">>)
              THEN LET r == SubSeq(rest, 3, Len(rest))
                   IN  ParseAuthority(
                           SubSeq(r, 1, FirstIn(r, {"/", "?", "#"}) - 1), FALSE)
              ELSE \* opaque path
                   [ok |-> TRUE, hostname |-> <<>>]

\* mutant: the validity check accepts every string
isValidUrl_AcceptsAll(string) == Len(string) >= 0

\* isValidUrl(string), lines 49-56
isValidUrl(string) ==
    ParseUrl(IF StartsWith(string, HTTP) THEN string
             ELSE HTTPS_SL \o string).ok

\* url.split("/")[0]
SplitSlashFirst(url) == SubSeq(url, 1, FirstIn(url, {"/"}) - 1)

\* getDomainFromUrl(url), lines 282-289
getDomainFromUrl(url) ==
    LET p == ParseUrl(IF StartsWith(url, HTTP) THEN url ELSE HTTPS_SL \o url)
    IN  IF p.ok THEN p.hostname ELSE SplitSlashFirst(url)

\* the normalization of POST /api/visit, lines 130-136
NormalizeUrl(trimmedUrl) ==
    IF ~StartsWith(trimmedUrl, HTTP_SL) /\ ~StartsWith(trimmedUrl, HTTPS_SL)
    THEN HTTPS_SL \o trimmedUrl
    ELSE trimmedUrl


(***************************************************************************)
(* JavaScript values of the request body's url field.                      *)
(***************************************************************************)
Undefined == [t |-> "undefined"]
Num(n)    == [t |-> "number", v |-> n]
Str(s)    == [t |-> "string", v |-> s]

\* !url
Falsy(u) ==
    \/ u.t = "undefined"
    \/ u.t = "number" /\ u.v = 0
    \/ u.t = "string" /\ u.v = <<>>

\* the bodies a client sends to POST /api/visit (req.body.url)
Bodies ==
    { Undefined,
      Num(42),
      Str(<<>>),
      Str(<<" ", " ">>),
      Str(<<"a", ".", "c">>),
      Str(<<" ", "h", "t", "t", "p", ":", "/", "/", "B", ".", "c", "/", "x", " ">>),
      Str(<<"a", " ", "b">>),
      Str(<<"h", "t", "t", "p", "b", "i", "n", ".", "c">>) }

\* the values new Date().toISOString() returns (the wall clock is an input)
Instants == {"2025-01-01T00:00:00.000Z"}

(***************************************************************************)
(* JSON.stringify(browserHistory, null, 2) and JSON.parse: the text of     *)
(* history.json is modelled as the sequence of its members, in the order   *)
(* the properties were created.                                            *)
(***************************************************************************)
\* mutant: only the entries up to the cursor are written
JSONstringify_UpToCursor(h) ==
    << <<"pages", [i \in 1..(h.currentIndex + 1) |->
                     << <<"url", h.pages[i].url>>,
                        <<"timestamp", h.pages[i].timestamp>>,
                        <<"title", h.pages[i].title>> >>]>>,
       <<"currentIndex", h.currentIndex>> >>

JSONstringify(h) ==
    << <<"pages", [i \in 1..Len(h.pages) |->
                     << <<"url", h.pages[i].url>>,
                        <<"timestamp", h.pages[i].timestamp>>,
                        <<"title", h.pages[i].title>> >>]>>,
       <<"currentIndex", h.currentIndex>> >>

\* the value of member key of a parsed object
Member(obj, key) == obj[CHOOSE i \in 1..Len(obj) : obj[i][1] = key][2]

JSONparse(text) ==
    [pages |-> [i \in 1..Len(Member(text, "pages")) |->
                  [url       |-> Member(Member(text, "pages")[i], "url"),
                   timestamp |-> Member(Member(text, "pages")[i], "timestamp"),
                   title     |-> Member(Member(text, "pages")[i], "title")]],
     currentIndex |-> Member(text, "currentIndex")]

\* history.json: absent (readFile fails with ENOENT), holding the text a
\* completed write left, or holding text that JSON.parse rejects (the
\* torn result of two overlapping writes or of a failed one)
NotFound   == [st |-> "ENOENT", text |-> <<>>]
Corrupt    == [st |-> "torn", text |-> <<>>]
File(text) == [st |-> "json", text |-> text]

(***************************************************************************)
(* State.                                                                  *)
(***************************************************************************)
VARIABLES
    browserHistory, \* the module-level object {pages, currentIndex}
    disk,           \* the content of history.json
    inflight,       \* the pending fs.writeFile calls, oldest first, each
                    \* with the handler suspended on it
    phase,          \* "reading", "initsave", "listening" or "exited"
    resp,           \* the response sent by the latest step of the event
                    \* loop, NoResponse when it sent none
    backRun         \* observer: the state (E, c) in which the latest run
                    \* of back() and forward() calls began with a
                    \* successful back(), and the number k of its back()
                    \* calls that no forward() has undone yet

vars == <<browserHistory, disk, inflight, phase, resp, backRun>>

pages        == browserHistory.pages
currentIndex == browserHistory.currentIndex

\* lines 22-25
EmptyHistory == [pages |-> <<>>, currentIndex |-> -1]

NoRun == [E |-> <<>>, c |-> -1, k |-> 0]

NoResponse == [op |-> "none", status |-> 0,
               body |-> [success |-> FALSE, error |-> ""]]

Failure(op, status, error) ==
    [op |-> op, status |-> status,
     body |-> [success |-> FALSE, error |-> error]]

Success(op, data, message) ==
    [op |-> op, status |-> 200,
     body |-> [success |-> TRUE, data |-> data, message |-> message]]

\* the state after the module is loaded and startServer() has called
\* fs.readFile: lines 22-25, 28-30, 309-311, 356
Init ==
    /\ browserHistory = EmptyHistory
    /\ disk = NotFound
    /\ inflight = <<>>
    /\ phase = "reading"
    /\ resp = NoResponse
    /\ backRun = NoRun

(***************************************************************************)
(* saveHistory, lines 40-46.  The call serializes the state at once and    *)
(* hands the text to fs.writeFile; the handler resumes when the write      *)
(* settles.  Writes of one file that overlap are not ordered by Node.      *)
(***************************************************************************)
\* mutant: the snapshot is taken of the state before the handler's mutation
saveHistory_BeforeMutation(h, op, url) ==
    Append([i \in 1..Len(inflight) |->
               [inflight[i] EXCEPT !.overlapped = TRUE]],
           [op |-> op, url |-> url, data |-> JSONstringify(browserHistory),
            overlapped |-> inflight # <<>>])

\* the list of pending writes after saveHistory() is called with state h
\* by the handler op (url: the handler's local normalizedUrl)
saveHistory(h, op, url) ==
    Append([i \in 1..Len(inflight) |->
               [inflight[i] EXCEPT !.overlapped = TRUE]],
           [op |-> op, url |-> url, data |-> JSONstringify(h),
            overlapped |-> inflight # <<>>])

\* what history.json may hold once the write w has settled
WriteResults(w, ok) ==
    IF ok THEN (IF w.overlapped THEN {File(w.data), Corrupt}
                ELSE {File(w.data)})
    ELSE {disk, Corrupt}

\* the pending writes without the i-th
Without(i) ==
    [j \in 1..(Len(inflight) - 1) |->
        IF j < i THEN inflight[j] ELSE inflight[j + 1]]

\* the i-th write, of a handler op, settles (a failure is caught and
\* logged by saveHistory, lines 43-45, and not passed on to the handler)
Settles(i, op, ok) ==
    /\ i \in 1..Len(inflight)
    /\ inflight[i].op = op
    /\ disk' \in WriteResults(inflight[i], ok)

(***************************************************************************)
(* Query projection and boundary checks.                                   *)
(***************************************************************************)
\* the data object of a navigation response, lines 196-203 and 232-239
Projection(h, page) ==
    [page         |-> page,
     canGoBack    |-> h.currentIndex > 0,
     canGoForward |-> h.currentIndex < Len(h.pages) - 1,
     currentIndex |-> h.currentIndex,
     totalPages   |-> Len(h.pages)]

\* browserHistory.pages[browserHistory.currentIndex] is not undefined
HasCurrentPage(h) ==
    h.currentIndex >= 0 /\ h.currentIndex < Len(h.pages)

\* mutant: the boundary check of back() lets the cursor leave index 0
CannotGoBack_Strict == currentIndex < 0

\* line 182
CannotGoBack == currentIndex <= 0

\* mutant: the boundary check of forward() is off by one, past the end
CannotGoForward_PastEnd == currentIndex >= Len(pages)

\* mutant: the boundary check of forward() is off by one, before the end
CannotGoForward_TooEarly == currentIndex >= Len(pages) - 2

\* line 218
CannotGoForward == currentIndex >= Len(pages) - 1

\* line 114
MissingUrl(u) == Falsy(u) \/ u.t # "string"

\* lines 139-143
NewPage(normalizedUrl, now) ==
    [url       |-> normalizedUrl,
     timestamp |-> now,
     title     |-> getDomainFromUrl(normalizedUrl)]

\* mutant: the forward entries are not discarded
Visited_NoTruncation(h, newPage) ==
    [pages |-> Append(h.pages, newPage), currentIndex |-> Len(h.pages)]

\* mutant: the new cursor is computed from the length before truncation
Visited_StaleIndex(h, newPage) ==
    LET kept == IF h.currentIndex < Len(h.pages) - 1
                THEN SubSeq(h.pages, 1, h.currentIndex + 1)
                ELSE h.pages
    IN  [pages |-> Append(kept, newPage), currentIndex |-> Len(h.pages)]

\* mutant: the entries that are kept get the time of the visit
Visited_Restamps(h, newPage) ==
    LET kept == IF h.currentIndex < Len(h.pages) - 1
                THEN SubSeq(h.pages, 1, h.currentIndex + 1)
                ELSE h.pages
    IN  [pages |-> Append([i \in 1..Len(kept) |->
                             [kept[i] EXCEPT
                                 !.timestamp = <<"now", newPage.timestamp>>]],
                          newPage),
         currentIndex |-> Len(kept)]

\* lines 146-155: the history after visiting newPage
Visited(h, newPage) ==
    LET kept == IF h.currentIndex < Len(h.pages) - 1
                THEN SubSeq(h.pages, 1, h.currentIndex + 1)
                ELSE h.pages
    IN  [pages |-> Append(kept, newPage), currentIndex |-> Len(kept)]

(***************************************************************************)
(* Startup: initializeHistory and startServer, lines 28-37 and 309-334.    *)
(***************************************************************************)
\* fs.readFile settles.  A read that overlaps a write of the file (the
\* save of a signal handler) may see the file torn.
ReadResults == IF inflight = <<>> THEN {disk} ELSE {disk, Corrupt}

\* lines 30-32 and 313: the file is read and parsed, the server listens
LoadHistory ==
    /\ phase = "reading"
    /\ \E data \in ReadResults :
          /\ data.st = "json"
          /\ browserHistory' = JSONparse(data.text)
    /\ phase' = "listening"
    /\ backRun' = NoRun
    /\ resp' = NoResponse
    /\ UNCHANGED <<disk, inflight>>

\* mutant: after a failed load the server listens without saving
LoadFails_NoSave ==
    /\ phase = "reading"
    /\ Len(inflight) < MaxInFlight
    /\ \E data \in ReadResults : data.st # "json"
    /\ phase' = "listening"
    /\ resp' = NoResponse
    /\ UNCHANGED <<browserHistory, disk, inflight, backRun>>

\* lines 33-35: reading or parsing failed, the fresh state is saved
LoadFails ==
    /\ phase = "reading"
    /\ Len(inflight) < MaxInFlight
    /\ \E data \in ReadResults : data.st # "json"
    /\ inflight' = saveHistory(browserHistory, "init", <<>>)
    /\ phase' = "initsave"
    /\ resp' = NoResponse
    /\ UNCHANGED <<browserHistory, disk, backRun>>

\* lines 35-36 and 313: the first save settles, the server listens
InitSaveDone(i, ok) ==
    /\ phase = "initsave"
    /\ Settles(i, "init", ok)
    /\ inflight' = Without(i)
    /\ phase' = "listening"
    /\ resp' = NoResponse
    /\ UNCHANGED <<browserHistory, backRun>>

(***************************************************************************)
(* POST /api/visit, lines 110-177.                                         *)
(***************************************************************************)
\* lines 112-157: the handler up to its await
VisitRequest(url, now) ==
    /\ phase = "listening"
    /\ \/ /\ MissingUrl(url)
          /\ resp' = Failure("visit", 400,
                             "URL is required and must be a string")
          /\ UNCHANGED <<browserHistory, disk, inflight, phase,
                         backRun>>
       \/ /\ ~MissingUrl(url)
          /\ ~isValidUrl(Trim(url.v))
          /\ resp' = Failure("visit", 400, "Invalid URL format")
          /\ UNCHANGED <<browserHistory, disk, inflight, phase,
                         backRun>>
       \/ /\ ~MissingUrl(url)
          /\ isValidUrl(Trim(url.v))
          /\ currentIndex + 2 <= MaxPages
          /\ Len(inflight) < MaxInFlight
          /\ LET normalizedUrl == NormalizeUrl(Trim(url.v))
             IN  /\ browserHistory' =
                        Visited(browserHistory, NewPage(normalizedUrl, now))
                 /\ inflight' =
                        saveHistory(browserHistory', "visit", normalizedUrl)
          /\ backRun' = NoRun
          /\ resp' = NoResponse
          /\ UNCHANGED <<disk, phase>>

\* lines 157-169: the save settled, the response is built and sent
VisitResume(i, ok) ==
    /\ Settles(i, "visit", ok)
    /\ inflight' = Without(i)
    /\ resp' = Success("visit",
                       [page         |-> inflight[i].url,
                        canGoBack    |-> currentIndex > 0,
                        canGoForward |-> FALSE,
                        currentIndex |-> currentIndex,
                        totalPages   |-> Len(pages)],
                       <<"Successfully visited: ", inflight[i].url>>)
    /\ UNCHANGED <<browserHistory, phase, backRun>>

(***************************************************************************)
(* POST /api/back, lines 180-213.                                          *)
(***************************************************************************)
\* lines 182-190
BackRequest ==
    /\ phase = "listening"
    /\ \/ /\ CannotGoBack
          /\ resp' = Failure("back", 400,
                 "Cannot go back - already at the beginning of history")
          /\ UNCHANGED <<browserHistory, disk, inflight, phase,
                         backRun>>
       \/ /\ ~CannotGoBack
          /\ Len(inflight) < MaxInFlight
          /\ browserHistory' =
                 [browserHistory EXCEPT !.currentIndex = @ - 1]
          /\ inflight' = saveHistory(browserHistory', "back", <<>>)
          /\ backRun' = IF backRun = NoRun
                        THEN [E |-> pages, c |-> currentIndex, k |-> 1]
                        ELSE [backRun EXCEPT !.k = @ + 1]
          /\ resp' = NoResponse
          /\ UNCHANGED <<disk, phase>>

\* mutant: a failed save is passed on to the handler, whose catch answers 500
BackResume_FailurePropagates(i, ok) ==
    /\ Settles(i, "back", ok)
    /\ inflight' = Without(i)
    /\ resp' = IF ok /\ HasCurrentPage(browserHistory)
               THEN Success("back",
                            Projection(browserHistory,
                                       pages[currentIndex + 1].url),
                            <<"Went back to: ",
                              pages[currentIndex + 1].url>>)
               ELSE Failure("back", 500,
                            "Internal server error while going back")
    /\ UNCHANGED <<browserHistory, phase, backRun>>

\* lines 190-212: currentPage is read after the await; currentPage.url
\* throws when there is no such page, and the catch answers 500
BackResume(i, ok) ==
    /\ Settles(i, "back", ok)
    /\ inflight' = Without(i)
    /\ resp' = IF HasCurrentPage(browserHistory)
               THEN Success("back",
                            Projection(browserHistory,
                                       pages[currentIndex + 1].url),
                            <<"Went back to: ",
                              pages[currentIndex + 1].url>>)
               ELSE Failure("back", 500,
                            "Internal server error while going back")
    /\ UNCHANGED <<browserHistory, phase, backRun>>

(***************************************************************************)
(* POST /api/forward, lines 216-249.                                       *)
(***************************************************************************)
\* lines 218-226
ForwardRequest ==
    /\ phase = "listening"
    /\ \/ /\ CannotGoForward
          /\ resp' = Failure("forward", 400,
                 "Cannot go forward - already at the end of history")
          /\ UNCHANGED <<browserHistory, disk, inflight, phase,
                         backRun>>
       \/ /\ ~CannotGoForward
          /\ Len(inflight) < MaxInFlight
          /\ browserHistory' =
                 [browserHistory EXCEPT !.currentIndex = @ + 1]
          /\ inflight' = saveHistory(browserHistory', "forward", <<>>)
          /\ backRun' = IF backRun.k > 0
                        THEN [backRun EXCEPT !.k = @ - 1]
                        ELSE NoRun
          /\ resp' = NoResponse
          /\ UNCHANGED <<disk, phase>>

\* lines 226-248
ForwardResume(i, ok) ==
    /\ Settles(i, "forward", ok)
    /\ inflight' = Without(i)
    /\ resp' = IF HasCurrentPage(browserHistory)
               THEN Success("forward",
                            Projection(browserHistory,
                                       pages[currentIndex + 1].url),
                            <<"Went forward to: ",
                              pages[currentIndex + 1].url>>)
               ELSE Failure("forward", 500,
                            "Internal server error while going forward")
    /\ UNCHANGED <<browserHistory, phase, backRun>>

(***************************************************************************)
(* DELETE /api/clear, lines 252-279.                                       *)
(***************************************************************************)
\* mutant: clear empties the pages and leaves the cursor where it was
ClearRequest_KeepsCursor ==
    /\ phase = "listening"
    /\ Len(inflight) < MaxInFlight
    /\ browserHistory' = [pages |-> <<>>, currentIndex |-> currentIndex]
    /\ inflight' = saveHistory(browserHistory', "clear", <<>>)
    /\ backRun' = NoRun
    /\ resp' = NoResponse
    /\ UNCHANGED <<disk, phase>>

\* lines 254-259
ClearRequest ==
    /\ phase = "listening"
    /\ Len(inflight) < MaxInFlight
    /\ browserHistory' = EmptyHistory
    /\ inflight' = saveHistory(browserHistory', "clear", <<>>)
    /\ backRun' = NoRun
    /\ resp' = NoResponse
    /\ UNCHANGED <<disk, phase>>

\* lines 259-271
ClearResume(i, ok) ==
    /\ Settles(i, "clear", ok)
    /\ inflight' = Without(i)
    /\ resp' = Success("clear",
                       [page         |-> <<>>,
                        canGoBack    |-> FALSE,
                        canGoForward |-> FALSE,
                        currentIndex |-> -1,
                        totalPages   |-> 0],
                       <<"History cleared successfully">>)
    /\ UNCHANGED <<browserHistory, phase, backRun>>

(***************************************************************************)
(* SIGINT and SIGTERM, lines 342-354, and the start of the next process.   *)
(***************************************************************************)
\* lines 342-344 and 349-351: the handler calls saveHistory
Signal ==
    /\ phase # "exited"
    /\ Len(inflight) < MaxInFlight
    /\ inflight' = saveHistory(browserHistory, "shutdown", <<>>)
    /\ resp' = NoResponse
    /\ UNCHANGED <<browserHistory, disk, phase, backRun>>

\* lines 344-346 and 351-353: the save settled, process.exit(0): the
\* process and its memory are gone.  The writes still pending are
\* abandoned wherever they are: the file may be left holding one of
\* their texts.
Shutdown(i, ok) ==
    /\ i \in 1..Len(inflight)
    /\ inflight[i].op = "shutdown"
    /\ disk' \in WriteResults(inflight[i], ok)
                   \cup {File(inflight[j].data) :
                            j \in (1..Len(inflight)) \ {i}}
    /\ inflight' = <<>>
    /\ phase' = "exited"
    /\ resp' = NoResponse
    /\ browserHistory' = EmptyHistory
    /\ backRun' = NoRun

\* the program is started again: lines 22-25, 28-30, 356
Restart ==
    /\ phase = "exited"
    /\ browserHistory' = EmptyHistory
    /\ phase' = "reading"
    /\ resp' = NoResponse
    /\ UNCHANGED <<disk, inflight, backRun>>

(***************************************************************************)
(* The event loop.                                                         *)
(***************************************************************************)
\* no write of history.json is pending
Idle == inflight = <<>>

\* The client sends one request at a time: a request or a signal arrives
\* only while no write is pending.  A write succeeds or fails.
Next ==
    \/ LoadHistory
    \/ LoadFails
    \/ \E i \in 1..MaxInFlight, ok \in BOOLEAN : InitSaveDone(i, ok)
    \/ Idle /\ \E url \in Bodies, now \in Instants : VisitRequest(url, now)
    \/ \E i \in 1..MaxInFlight, ok \in BOOLEAN : VisitResume(i, ok)
    \/ Idle /\ BackRequest
    \/ \E i \in 1..MaxInFlight, ok \in BOOLEAN : BackResume(i, ok)
    \/ Idle /\ ForwardRequest
    \/ \E i \in 1..MaxInFlight, ok \in BOOLEAN : ForwardResume(i, ok)
    \/ Idle /\ ClearRequest
    \/ \E i \in 1..MaxInFlight, ok \in BOOLEAN : ClearResume(i, ok)
    \/ Idle /\ Signal
    \/ \E i \in 1..MaxInFlight, ok \in BOOLEAN : Shutdown(i, ok)
    \/ Restart

Spec == Init /\ [][Next]_vars

\* Requests and signals arrive at any time, also while the writes of
\* earlier handlers are pending; these runs are explored on histories of
\* at most ConcurrentPages pages and with writes that all succeed.
ConcurrentPages == 2

ConcurrentNext ==
    \/ LoadHistory
    \/ LoadFails
    \/ \E i \in 1..MaxInFlight : InitSaveDone(i, TRUE)
    \/ \E url \in Bodies, now \in Instants :
          VisitRequest(url, now) /\ Len(pages') <= ConcurrentPages
    \/ \E i \in 1..MaxInFlight : VisitResume(i, TRUE)
    \/ BackRequest
    \/ \E i \in 1..MaxInFlight : BackResume(i, TRUE)
    \/ ForwardRequest
    \/ \E i \in 1..MaxInFlight : ForwardResume(i, TRUE)
    \/ ClearRequest
    \/ \E i \in 1..MaxInFlight : ClearResume(i, TRUE)
    \/ Signal
    \/ \E i \in 1..MaxInFlight : Shutdown(i, TRUE)
    \/ Restart

ConcurrentSpec == Init /\ [][ConcurrentNext]_vars

(***************************************************************************)
(* Properties.                                                             *)
(***************************************************************************)
\* the text a successful save of the current state leaves in history.json
Saved == File(JSONstringify(browserHistory))

\* C1: in every reachable state, after any sequence of visit, back,
\* forward and clear requests, accepted or rejected, the cursor satisfies
\* -1 <= currentIndex < length(pages).
C1_CursorInRange ==
    -1 <= currentIndex /\ currentIndex < Len(pages)

\* a forward() has succeeded and put the cursor on the last of several pages
C1_Witness ==
    /\ resp.op = "forward" /\ resp.status = 200
    /\ Len(pages) >= 2
    /\ currentIndex = Len(pages) - 1

\* C2: truncation law.  When a successful visit(u) follows k successful
\* back() calls made from entries E and cursor c (1 <= k <= c), the
\* entries become E[0..c-k] followed by the new entry for u, and the cursor
\* is on that entry; back() and forward() never change the entries and
\* keep the cursor on one of them, so no entry that was beyond c-k is ever
\* the current page again.
C2_TruncationLaw ==
    [][ /\ \A url \in Bodies, now \in Instants :
             ( /\ backRun.k > 0
               /\ Len(inflight') = Len(inflight) + 1
               /\ VisitRequest(url, now)
               /\ ~MissingUrl(url)
               /\ isValidUrl(Trim(url.v)) )
             => LET n == backRun.c - backRun.k + 1
                    u == NormalizeUrl(Trim(url.v))
                IN  /\ backRun.k <= backRun.c
                    /\ Len(pages') = n + 1
                    /\ SubSeq(pages', 1, n) = SubSeq(backRun.E, 1, n)
                    /\ pages'[n + 1] = [url |-> u, timestamp |-> now,
                                        title |-> getDomainFromUrl(u)]
                    /\ currentIndex' = n
        /\ (BackRequest \/ ForwardRequest)
             => /\ pages' = pages
                /\ pages # <<>> => currentIndex' \in 0..(Len(pages) - 1)
      ]_vars

\* a visit has just truncated: the file still holds the state the visit
\* found, three entries with the cursor on the first (two back() calls
\* from the end), and the history is now that first entry and the new one
C2_Witness ==
    /\ Len(inflight) = 1 /\ inflight[1].op = "visit"
    /\ disk.st = "json"
    /\ Len(JSONparse(disk.text).pages) = 3
    /\ JSONparse(disk.text).currentIndex = 0
    /\ Len(pages) = 2
    /\ pages[1] = JSONparse(disk.text).pages[1]
    /\ currentIndex = 1

\* C3: back() requested with currentIndex <= 0 (the empty state included)
\* is rejected with status 400 and the AtBeginning error, and leaves pages,
\* currentIndex and history.json unchanged (no write is started).
C3_BackRejectedAtBeginning ==
    [][ (BackRequest /\ currentIndex <= 0)
          => /\ resp' = Failure("back", 400,
                    "Cannot go back - already at the beginning of history")
             /\ UNCHANGED <<browserHistory, disk, inflight>>
      ]_vars

\* back() was rejected on the first of several pages, the file in step
C3_Witness ==
    /\ resp.op = "back" /\ resp.status = 400
    /\ currentIndex = 0
    /\ Len(pages) >= 2
    /\ disk = Saved

\* C4: forward() requested with currentIndex >= length(pages) - 1 (the
\* empty state included) is rejected with status 400 and the AtEnd error,
\* and leaves pages, currentIndex and history.json unchanged.
C4_ForwardRejectedAtEnd ==
    [][ (ForwardRequest /\ currentIndex >= Len(pages) - 1)
          => /\ resp' = Failure("forward", 400,
                    "Cannot go forward - already at the end of history")
             /\ UNCHANGED <<browserHistory, disk, inflight>>
      ]_vars

\* forward() was rejected on the last of several pages
C4_Witness ==
    /\ resp.op = "forward" /\ resp.status = 400
    /\ Len(pages) >= 2
    /\ currentIndex = Len(pages) - 1

\* C5: from a state with currentIndex > 0, back() is accepted and answers
\* 200, and a forward() that follows it is accepted, answers 200 and
\* restores the cursor, the current address and the pages of that state.
C5_BackForwardRoundTrip ==
    [][ /\ (BackRequest /\ currentIndex > 0)
             => /\ currentIndex' = currentIndex - 1
                /\ pages' = pages
                /\ Len(inflight') = Len(inflight) + 1
        /\ (ForwardRequest /\ backRun.k = 1)
             => /\ backRun.c > 0
                /\ browserHistory' =
                       [pages |-> backRun.E, currentIndex |-> backRun.c]
                /\ pages'[currentIndex' + 1].url =
                       backRun.E[backRun.c + 1].url
                /\ Len(inflight') = Len(inflight) + 1
        /\ \A i \in 1..MaxInFlight, ok \in BOOLEAN :
             (BackResume(i, ok) \/ ForwardResume(i, ok))
             => /\ resp'.status = 200
                /\ resp'.body.data.currentIndex = currentIndex
                /\ resp'.body.data.page = pages[currentIndex + 1].url
      ]_vars

\* back() and then forward() have both answered 200 and the state is the
\* one the back() started from
C5_Witness ==
    /\ backRun # NoRun /\ backRun.k = 0
    /\ resp.op = "forward" /\ resp.status = 200
    /\ browserHistory = [pages |-> backRun.E, currentIndex |-> backRun.c]

\* C6: a successful visit from cursor c (c = -1 included) leaves c + 2
\* entries, puts the cursor on the last one, and that entry is the new
\* entry of the visited address.
C6_VisitAppends ==
    [][ \A url \in Bodies, now \in Instants :
          ( /\ Len(inflight') = Len(inflight) + 1
            /\ VisitRequest(url, now)
            /\ ~MissingUrl(url)
            /\ isValidUrl(Trim(url.v)) )
          => LET u == NormalizeUrl(Trim(url.v))
             IN  /\ Len(pages') = currentIndex + 2
                 /\ currentIndex' = Len(pages') - 1
                 /\ pages'[currentIndex' + 1] =
                        [url |-> u, timestamp |-> now,
                         title |-> getDomainFromUrl(u)]
                 /\ StartsWith(u, HTTP_SL) \/ StartsWith(u, HTTPS_SL)
                 /\ browserHistory' # browserHistory
      ]_vars

\* a visit from the middle of the history (the file still holds the state
\* it found, with entries beyond the cursor) has acted
C6_Witness ==
    /\ Len(inflight) = 1 /\ inflight[1].op = "visit"
    /\ disk.st = "json"
    /\ JSONparse(disk.text).currentIndex
           < Len(JSONparse(disk.text).pages) - 1
    /\ Len(pages) = JSONparse(disk.text).currentIndex + 2
    /\ currentIndex = Len(pages) - 1

\* C7: clear() is accepted in every state of the listening server, leaves
\* pages = [] and currentIndex = -1 and answers 200 with the empty
\* projection; in the state it leaves, back() and forward() are rejected.
C7_ClearResets ==
    [][ /\ ClearRequest => browserHistory' = EmptyHistory
        /\ (phase = "listening" /\ Len(inflight) < MaxInFlight)
             => ENABLED ClearRequest
        /\ \A i \in 1..MaxInFlight, ok \in BOOLEAN :
             ClearResume(i, ok)
             => /\ resp'.status = 200
                /\ resp'.body.data = Projection(EmptyHistory, <<>>)
        /\ (browserHistory = EmptyHistory /\ (BackRequest \/ ForwardRequest))
             => /\ resp'.status = 400
                /\ browserHistory' = EmptyHistory
      ]_vars

\* clear() has emptied a history of several pages (the file still holds
\* them) and its save is pending
C7_Witness ==
    /\ Len(inflight) = 1 /\ inflight[1].op = "clear"
    /\ browserHistory = EmptyHistory
    /\ disk.st = "json"
    /\ Len(JSONparse(disk.text).pages) >= 2

\* the handlers of mutating requests that have applied their mutation and
\* are suspended on their save
MutatingOps == {"visit", "back", "forward", "clear"}

\* C8: mutating operations are serialized: no visit, back, forward or clear
\* is accepted (its mutation applied) while another one has applied its
\* mutation and not yet completed its persistence write.
C8_MutationsSerialized ==
    Cardinality({i \in 1..Len(inflight) : inflight[i].op \in MutatingOps}) <= 1

\* C9: saves do not interleave and take effect in the order of their
\* mutations, so that once every pending request has completed, no write
\* having failed, history.json holds the in-memory state.
C9_SavesInOrder ==
    (phase = "listening" /\ inflight = <<>>) => disk = Saved

\* C10: the response of back() and of forward() is determined by the
\* handler's own mutation: whatever is processed while its save is pending,
\* it answers 200 with the projection of the state its own mutation
\* produced (the state it serialized) and the address of that entry.
C10_ResultFromOwnMutation ==
    [][ \A i \in 1..MaxInFlight, ok \in BOOLEAN :
          (BackResume(i, ok) \/ ForwardResume(i, ok))
          => LET own == JSONparse(inflight[i].data)
             IN  /\ resp'.status = 200
                 /\ resp'.body.data =
                        Projection(own, own.pages[own.currentIndex + 1].url)
      ]_vars

\* C11: every successful visit answers with the projection of the state it
\* produced: canGoForward is false, the reported currentIndex is the
\* reported totalPages - 1, canGoBack is true iff currentIndex > 0, and the
\* reported page is the entry of the snapshot the handler serialized at
\* its own cursor.
C11_VisitProjection ==
    [][ \A i \in 1..MaxInFlight, ok \in BOOLEAN :
          VisitResume(i, ok)
          => LET own == JSONparse(inflight[i].data)
                 d   == resp'.body.data
             IN  /\ resp'.status = 200
                 /\ d.canGoForward = FALSE
                 /\ d.currentIndex = d.totalPages - 1
                 /\ d.canGoBack = (d.currentIndex > 0)
                 /\ d = Projection(own, own.pages[own.currentIndex + 1].url)
      ]_vars

\* C12: the state is persisted after every successful mutation.  With
\* requests processed one at a time, when the write of a visit, back,
\* forward or clear succeeds, then at the moment the handler sends its 200
\* response history.json holds exactly the in-memory pages and currentIndex.
C12_PersistedAfterMutation ==
    [][ \A i \in 1..MaxInFlight :
          ( /\ \/ VisitResume(i, TRUE) \/ BackResume(i, TRUE)
               \/ ForwardResume(i, TRUE) \/ ClearResume(i, TRUE)
            /\ Len(inflight) = 1 )
          => /\ resp'.status = 200
             /\ disk'.st = "json"
             /\ JSONparse(disk'.text) = browserHistory'
             /\ disk' = File(JSONstringify(browserHistory'))
      ]_vars

\* a forward() has answered 200 and the file holds the history with the
\* cursor it moved (the file before held the cursor one lower)
C12_Witness ==
    /\ resp.op = "forward" /\ resp.status = 200
    /\ inflight = <<>>
    /\ disk = Saved
    /\ currentIndex >= 1

\* C13: a failed persistence write is not propagated and does not touch
\* the in-memory state.  When the save of a visit, back, forward or clear
\* fails, pages and currentIndex remain those the mutation produced (the
\* state the handler serialized), the handler still answers 200 with
\* success, and history.json is not brought up to date.
C13_SaveFailureRecovered ==
    [][ \A i \in 1..MaxInFlight :
          ( \/ VisitResume(i, FALSE) \/ BackResume(i, FALSE)
            \/ ForwardResume(i, FALSE) \/ ClearResume(i, FALSE) )
          => /\ browserHistory' = browserHistory
             /\ browserHistory = JSONparse(inflight[i].data)
             /\ resp'.status = 200
             /\ resp'.body.success = TRUE
             /\ resp'.body.data.currentIndex = currentIndex
             /\ resp'.body.data.totalPages = Len(pages)
             /\ disk' \in {disk, Corrupt}
      ]_vars

\* a back() whose save failed has answered 200: the memory holds the moved
\* cursor and the file does not
C13_Witness ==
    /\ resp.op = "back" /\ resp.status = 200
    /\ inflight = <<>>
    /\ disk.st = "json"
    /\ JSONparse(disk.text).pages = pages
    /\ JSONparse(disk.text).currentIndex = currentIndex + 1

\* C14: persistence round trip.  Whatever state a save serializes, parsing
\* the text gives back exactly that state (pages with every url, timestamp
\* and title, and currentIndex); a save that completes alone leaves exactly
\* that text in history.json; and the startup load of the next process
\* restores from the file a state that serializes to the very text it read.
\* The handlers depend on browserHistory only, so they behave after the
\* restart as they would have from the saved state.
C14_PersistenceRoundTrip ==
    [][ /\ inflight' # <<>> /\ Len(inflight') > Len(inflight)
             => LET w == inflight'[Len(inflight')]
                    h == IF w.op \in {"init", "shutdown"}
                         THEN browserHistory ELSE browserHistory'
                IN  /\ w.data = JSONstringify(h)
                    /\ JSONparse(w.data) = h
        /\ \A i \in 1..MaxInFlight :
             ( /\ \/ VisitResume(i, TRUE) \/ BackResume(i, TRUE)
                  \/ ForwardResume(i, TRUE) \/ ClearResume(i, TRUE)
                  \/ InitSaveDone(i, TRUE) \/ Shutdown(i, TRUE)
               /\ ~inflight[i].overlapped )
             => disk' = File(inflight[i].data)
        /\ (LoadHistory /\ inflight = <<>>)
             => /\ browserHistory' = JSONparse(disk.text)
                /\ File(JSONstringify(browserHistory')) = disk
      ]_vars

\* a process has started from the file a previous one left: the server
\* listens, no request has been answered yet, and the restored history has
\* several entries with the cursor on the first
C14_Witness ==
    /\ phase = "listening"
    /\ resp = NoResponse /\ inflight = <<>>
    /\ Len(pages) >= 2 /\ currentIndex = 0
    /\ disk = Saved

\* C15: when the startup load finds no file, or reading or parsing it
\* fails, the store keeps the empty state (pages = [], currentIndex = -1)
\* and at once issues a save of that empty state; while that save is
\* pending no request is accepted, and when it completes alone the file
\* holds the empty state.
C15_StartupFallback ==
    [][ /\ (phase = "reading" /\ inflight = <<>> /\ disk.st # "json")
             => ENABLED LoadFails /\ ~ENABLED LoadHistory
        /\ LoadFails
             => /\ browserHistory' = EmptyHistory
                /\ phase' = "initsave"
                /\ inflight'[Len(inflight')].op = "init"
                /\ inflight'[Len(inflight')].data = JSONstringify(EmptyHistory)
        /\ phase \in {"reading", "initsave"}
             => /\ ~ENABLED (\E url \in Bodies, now \in Instants :
                                VisitRequest(url, now))
                /\ ~ENABLED BackRequest
                /\ ~ENABLED ForwardRequest
                /\ ~ENABLED ClearRequest
        /\ \A i \in 1..MaxInFlight :
             (InitSaveDone(i, TRUE) /\ ~inflight[i].overlapped)
             => /\ disk' = File(JSONstringify(EmptyHistory))
                /\ browserHistory' = EmptyHistory
                /\ phase' = "listening"
      ]_vars

\* the load failed on a file that JSON.parse rejects and the save of the
\* empty state is pending
C15_Witness ==
    /\ phase = "initsave"
    /\ disk = Corrupt
    /\ browserHistory = EmptyHistory
    /\ Len(inflight) = 1 /\ inflight[1].op = "init"

\* the bodies that are missing, not a string, empty, refused by the
\* validity check, or that parse neither as given nor with https:// in front
InvalidBodies ==
    {url \in Bodies :
        \/ MissingUrl(url)
        \/ /\ url.t = "string"
           /\ \/ ~isValidUrl(Trim(url.v))
              \/ /\ ~ParseUrl(Trim(url.v)).ok
                 /\ ~ParseUrl(HTTPS_SL \o Trim(url.v)).ok}

\* C16: a visit whose url is missing, not a string, empty, or fails the
\* validity check (in particular one that parses neither as given nor with
\* https:// in front) is rejected with status 400 and changes nothing:
\* pages (no truncation of the forward entries), currentIndex and
\* history.json are as before, and no write is started.
C16_InvalidVisitNoChange ==
    [][ \A url \in InvalidBodies, now \in Instants :
          VisitRequest(url, now)
          => /\ resp'.status = 400
             /\ resp'.body.success = FALSE
             /\ resp'.body.error =
                    IF MissingUrl(url)
                    THEN "URL is required and must be a string"
                    ELSE "Invalid URL format"
             /\ UNCHANGED <<browserHistory, disk, inflight>>
      ]_vars

\* a visit was rejected as invalid in the middle of a history: the entries
\* beyond the cursor are still there and the file is in step
C16_Witness ==
    /\ resp.op = "visit" /\ resp.status = 400
    /\ resp.body.error = "Invalid URL format"
    /\ Len(pages) >= 2
    /\ currentIndex < Len(pages) - 1
    /\ disk = Saved

\* C17: the validity check accepts a string exactly when its trimmed form
\* parses as a URL as given or, when it has no scheme, with https:// in
\* front; a visit is rejected as invalid only when neither form parses.
C17_ValidityCheckExact ==
    [][ \A url \in Bodies, now \in Instants :
          (VisitRequest(url, now) /\ ~MissingUrl(url))
          => LET t == Trim(url.v)
                 wellFormed ==
                     \/ ParseUrl(t).ok
                     \/ SchemeEnd(t) = 0 /\ ParseUrl(HTTPS_SL \o t).ok
             IN  /\ isValidUrl(t) <=> wellFormed
                 /\ (resp'.status = 400) <=> ~wellFormed
      ]_vars

\* C18: no operation changes an existing entry.  An accepted back() or
\* forward() leaves the pages sequence unchanged (length, order, and every
\* url, timestamp and title) and moves the cursor by one; an accepted visit
\* (the step of the handler that issues its save) leaves every entry at
\* an index <= the cursor it found unchanged; the steps that send the
\* responses leave the pages unchanged.
C18_EntriesImmutable ==
    [][ /\ (BackRequest /\ ~CannotGoBack)
             => pages' = pages /\ currentIndex' = currentIndex - 1
        /\ (ForwardRequest /\ ~CannotGoForward)
             => pages' = pages /\ currentIndex' = currentIndex + 1
        /\ \A url \in Bodies, now \in Instants :
             (Len(inflight') = Len(inflight) + 1 /\ VisitRequest(url, now))
             => /\ Len(pages') >= currentIndex + 1
                /\ \A j \in 1..(currentIndex + 1) : pages'[j] = pages[j]
        /\ \A i \in 1..MaxInFlight, ok \in BOOLEAN :
             ( \/ VisitResume(i, ok) \/ BackResume(i, ok)
               \/ ForwardResume(i, ok) \/ ClearResume(i, ok) )
             => pages' = pages
      ]_vars

\* a visit made from the second of three entries has replaced the third:
\* the file still holds the three entries the visit found
C18_Witness ==
    /\ Len(inflight) = 1 /\ inflight[1].op = "visit"
    /\ disk.st = "json"
    /\ Len(JSONparse(disk.text).pages) = 3
    /\ JSONparse(disk.text).currentIndex = 1
    /\ Len(pages) = 3 /\ currentIndex = 2
    /\ SubSeq(pages, 1, 2) = SubSeq(JSONparse(disk.text).pages, 1, 2)

\* C19: in every reachable state currentIndex = -1 exactly when pages is
\* empty: a non-empty history always has a current page, and back(),
\* forward() and visit never bring the cursor to -1.
C19_EmptyIffNoCursor ==
    /\ (currentIndex = -1) <=> (pages = <<>>)
    /\ pages # <<>> => HasCurrentPage(browserHistory)

\* back() was rejected on a history of one entry: the cursor stays on it
C19_Witness ==
    /\ resp.op = "back" /\ resp.status = 400
    /\ Len(pages) = 1
    /\ currentIndex = 0

\* C20: the final save of a SIGINT/SIGTERM handler never destroys the
\* persisted history.  When the shutdown save completes alone, the file
\* holds the current state of a listening server (the state restored from
\* the file or reached from it), and when the signal came while the
\* startup load was still reading an existing snapshot, the file still
\* holds that snapshot and not the untouched initial empty state.
C20_ShutdownKeepsHistory ==
    [][ \A i \in 1..MaxInFlight :
          (Shutdown(i, TRUE) /\ ~inflight[i].overlapped)
          => /\ phase = "listening" => disk' = Saved
             /\ (phase = "reading" /\ disk.st = "json") => disk' = disk
      ]_vars

=============================================================================
